---- MODULE Spec2Model ----
(***************************************************************************)
(* Scaler-FunnelMind backend (src/server.js and its collaborators): lead   *)
(* capture, analytics counters with the persistent / in-memory stores, the *)
(* welcome email and the timer-driven follow-up sequence.                  *)
(*                                                                         *)
(* The server is one Node.js process.  Code between two I/O awaits runs    *)
(* without interruption, so every action below is one such segment: it     *)
(* begins at a request's arrival, at a timer's expiry or at the completion *)
(* of an awaited I/O call, and runs to the next awaited I/O call or to the *)
(* end of the handler.  The outcome of an I/O call is chosen by the        *)
(* environment when the call completes.                                    *)
(***************************************************************************)
EXTENDS Integers, Sequences, FiniteSets, TLC

\* ------------------------------------------------------------- bounds
\* Number of HTTP requests (captures and tracking events) the model admits.
MaxReq == 2
\* Days of simulated time after process start.
MaxDays == 11
\* Number of captured leads whose email sequence is followed over time.
MaxSeqLeads == 1
\* Number of overlapping tracking requests followed on their own.
MaxTrack == 3

Requests == 1..MaxReq
TrackRequests == 1..MaxTrack
AllRequests == Requests \cup TrackRequests

\* --------------------------------------------------------- input domains
ABSENT == "<absent>"
Names == {ABSENT, "", "Ann"}
Emails == {ABSENT, "", "a@x.io", "A@x.io"}
BodyLeadIds == {ABSENT, "", "L1"}
Events == {"page_view", "assessment_started", "assessment_completed", "lead_captured"}
RandomSuffixes == {1, 2}

\* JavaScript truthiness of a request field: undefined and "" are falsy.
Falsy(v) == v \in {ABSENT, ""}

\* String.prototype.toLowerCase on the email domain (schema option lowercase: true).
toLowerCase(e) == IF e = "A@x.io" THEN "a@x.io" ELSE e

DayMs == 24 * 60 * 60 * 1000

\* ------------------------------------------------------------ lead ids
\* A lead id is either generated (timestamp and random suffix) or a text the
\* request body supplied.
NoId == [kind |-> "none", ts |-> 0, rnd |-> 0, txt |-> ""]
BodyId(t) == [kind |-> "body", ts |-> 0, rnd |-> 0, txt |-> t]

\* `lead_${Date.now()}_${Math.random().toString(36).substr(2, 9)}`
generateLeadId(time, rnd) == [kind |-> "gen", ts |-> time, rnd |-> rnd, txt |-> "lead"]

\* leadId: generateLeadId(), ...req.body : a leadId of the body overrides the
\* generated one, because the spread comes after it.
LeadIdOf(bodyLeadId, time, rnd) ==
    IF bodyLeadId = ABSENT THEN generateLeadId(time, rnd) ELSE BodyId(bodyLeadId)

IdNonEmpty(id) == id.kind = "gen" \/ (id.kind = "body" /\ id.txt # "")

NoLead == [leadId |-> NoId, name |-> ABSENT, email |-> ABSENT, createdAt |-> 0]

\* ----------------------------------------------------------- analytics
\* conversionRate is the number num/den (the code's floating-point value of
\* leadCaptures / assessmentStarts * 100 is num = 100 * leadCaptures over
\* den = assessmentStarts).
Rate(n, d) == [num |-> n, den |-> d]
ZeroAnalytics ==
    [pageViews |-> 0, assessmentStarts |-> 0, assessmentCompletions |-> 0,
     leadCaptures |-> 0, conversionRate |-> Rate(0, 1)]
NoDoc == [pageViews |-> -1, assessmentStarts |-> -1, assessmentCompletions |-> -1,
          leadCaptures |-> -1, conversionRate |-> Rate(0, 1)]

Fields == {"pageViews", "assessmentStarts", "assessmentCompletions", "leadCaptures"}
NoField == "<none>"

\* analytics[field]++
Increment(a, field) == [a EXCEPT ![field] = @ + 1]

\* AnalyticsSchema.methods.updateConversionRate, and the same statement on the
\* in-memory mirror.
updateConversionRate(a) ==
    IF a.assessmentStarts > 0
    THEN [a EXCEPT !.conversionRate = Rate(100 * a.leadCaptures, a.assessmentStarts)]
    ELSE a

RecomputedFields == {"leadCaptures", "assessmentCompletions"}

\* The local document after analytics[field]++ and the conditional recompute.
Bumped(a, field) ==
    IF field \in RecomputedFields
    THEN updateConversionRate(Increment(a, field))
    ELSE Increment(a, field)

RateEquals(a, n) == a.conversionRate.num = n * a.conversionRate.den

\* Persistent analytics records a previous process lifetime can have left
\* behind: none, or the record after one capture made before any assessment
\* start (its rate stayed 0) followed by nine assessment starts.
PriorAnalytics ==
    {NoDoc,
     [pageViews |-> 0, assessmentStarts |-> 9, assessmentCompletions |-> 0,
      leadCaptures |-> 1, conversionRate |-> Rate(0, 1)]}

\* Mongoose's save() of a loaded document writes the modified paths only: the
\* incremented counter, and conversionRate when its value changed.
SameRate(x, y) == x.num * y.den = y.num * x.den
SaveModified(db, read, field) ==
    LET new == Bumped(read, field) IN
    [db EXCEPT ![field] = new[field],
               !.conversionRate = IF SameRate(new.conversionRate, read.conversionRate)
                                  THEN @ ELSE new.conversionRate]

\* ------------------------------------------------------- email content
StageKeys == {"welcome", "assessment_results", "success_stories",
              "course_deep_dive", "social_proof", "final_cta"}

\* { delay, type } entries of emailSchedule, delays in milliseconds.
emailSchedule ==
    << [delay |-> 24 * 60 * 60 * 1000, type |-> "assessment_results"],
       [delay |-> 3 * 24 * 60 * 60 * 1000, type |-> "success_stories"],
       [delay |-> 5 * 24 * 60 * 60 * 1000, type |-> "course_deep_dive"],
       [delay |-> 7 * 24 * 60 * 60 * 1000, type |-> "social_proof"],
       [delay |-> 10 * 24 * 60 * 60 * 1000, type |-> "final_cta"] >>
ScheduledTypes == {emailSchedule[i].type : i \in 1..Len(emailSchedule)}

\* States of data/email-templates.json at the moment it is read: the file
\* cannot be read, cannot be parsed, lacks the key, has an entry for the key
\* without a template body, or has a complete entry.
TemplateStores == {"missing", "unparsable", "nokey", "nobody", "ok"}

\* emailContent values.  threw: the generator raised; isNull: the value is
\* null; hasFields: it carries subject and content.
Content(src, key) == [threw |-> FALSE, isNull |-> FALSE, hasFields |-> TRUE,
                      src |-> src, key |-> key]
Threw == [threw |-> TRUE, isNull |-> FALSE, hasFields |-> FALSE, src |-> "none", key |-> "none"]
NullContent == [threw |-> FALSE, isNull |-> TRUE, hasFields |-> FALSE, src |-> "ai", key |-> "none"]
BareContent == [threw |-> FALSE, isNull |-> FALSE, hasFields |-> FALSE, src |-> "ai", key |-> "none"]
NoContent == [threw |-> FALSE, isNull |-> FALSE, hasFields |-> FALSE, src |-> "none", key |-> "none"]

\* const templateKey = sequenceType === 'welcome' ? 'welcome' : 'assessment_results'
templateKey(sequenceType) ==
    IF sequenceType = "welcome" THEN "welcome" ELSE "assessment_results"

generateFallbackEmail(sequenceType, store) ==
    CASE store \in {"missing", "unparsable"} -> Content("ultimate", "generic")
      [] store = "nokey" -> Content("ultimate", "generic")
      [] store = "nobody" -> Threw      \* template.template is undefined: .replace throws
      [] OTHER -> Content("template", templateKey(sequenceType))

\* What callOpenAI and JSON.parse can give when the key is configured.
AiOutcomes == {"throws", "unparsable", "null", "bare", "object"}

\* generatePersonalizedEmail after the awaited callOpenAI.
generatePersonalizedEmail(outcome, sequenceType, store) ==
    CASE outcome \in {"throws", "unparsable"} -> generateFallbackEmail(sequenceType, store)
      [] outcome = "null" -> NullContent
      [] outcome = "bare" -> BareContent
      [] OTHER -> Content("ai", "none")

\* Reading emailContent.subject raises a TypeError on null; a generator that
\* raised never returned.
ContentUsable(c) == ~c.threw /\ ~c.isNull

\* The name put in place of {{name}}: assessmentData?.name || 'there', where
\* the callers pass the lead's assessmentAnswers as assessmentData.
AnswerNames == {ABSENT, "", "Ann", "Bob"}
PlaceholderName(answersName) == IF Falsy(answersName) THEN "there" ELSE answersName

\* --------------------------------------------------------- email dispatch
\* transporter.sendMail resolves or rejects.
TransportOutcomes == {"ok", "fails"}

NoResult == [success |-> FALSE, messageId |-> "", provider |-> "none"]

\* GmailService.mockEmailResponse
mockEmailResponse == [success |-> TRUE, messageId |-> "mock_id", provider |-> "mock"]

\* GmailService.sendEmail reaches transporter.sendMail when the service is
\* configured and the mail options could be built: generatePlainText of an
\* undefined content raises inside the try block.
TransportAttempted(configured, hasContent) == configured /\ hasContent

\* GmailService.sendEmail
GmailSendEmail(configured, hasContent, transport) ==
    IF ~configured
    THEN mockEmailResponse
    ELSE IF TransportAttempted(configured, hasContent) /\ transport = "ok"
         THEN [success |-> TRUE, messageId |-> "smtp_id", provider |-> "gmail"]
         ELSE mockEmailResponse


\* ---------------------------------------------------------- recommendation
Interests == {ABSENT, "", "data_science", "Data_Science", "mlops", "ai_research", "web_dev"}
Experiences == {ABSENT, "beginner", "expert"}
NoAnswers == [present |-> FALSE, interest |-> ABSENT, experience |-> ABSENT]
AssessmentData ==
    {NoAnswers} \cup [present : {TRUE}, interest : Interests, experience : Experiences]

DefaultCourse == "AI & Machine Learning Program"
NoRecommendation ==
    [recommendedCourse |-> "", reasoning |-> <<>>, expectedOutcome |-> "", successStory |-> ""]

\* The texts other than the course name are named by the branch that sets them.
RecommendDefaultCourse(assessmentData) ==
    [recommendedCourse |-> DefaultCourse, reasoning |-> <<"generic">>,
     expectedOutcome |-> "generic", successStory |-> "generic"]
generateCourseRecommendation(assessmentData) ==
    IF ~assessmentData.present
    THEN [recommendedCourse |-> DefaultCourse, reasoning |-> <<"generic">>,
          expectedOutcome |-> "generic", successStory |-> "generic"]
    ELSE LET interest == assessmentData.interest
             track == IF interest \in {"data_science", "mlops", "ai_research"}
                      THEN interest ELSE "default"
             course == CASE interest = "data_science" -> "Data Science & Analytics Program"
                         [] interest = "mlops" -> "MLOps & Deployment Program"
                         [] interest = "ai_research" -> "Advanced AI & Research Program"
                         [] OTHER -> DefaultCourse
             caveat == CASE assessmentData.experience = "beginner" -> <<"foundation">>
                         [] assessmentData.experience = "expert" -> <<"accelerated">>
                         [] OTHER -> <<>>
         IN  [recommendedCourse |-> course, reasoning |-> <<track>> \o caveat,
              expectedOutcome |-> track, successStory |-> track]

\* ------------------------------------------------------------ lead listing
\* Texts are character sequences, so that parsing and matching are computed.
NoParam == <<"<absent>">>
PageInputs == {NoParam, <<"a", "b", "c">>, <<"0">>, <<"-", "1">>, <<"2">>}
LimitInputs == {NoParam, <<"a", "b", "c">>, <<"0">>, <<"-", "1">>, <<"1">>, <<"2">>,
                <<"5", "0", "1">>}
Queries == {NoParam, <<"a", "n", "n">>, <<"a", ".", "x">>}
\* the query strings tried: each page and each limit alone, and small windows
ListQueries ==
    {qr \in [page : PageInputs, limit : LimitInputs, q : Queries] :
        \/ qr.page = NoParam
        \/ qr.limit = NoParam
        \/ qr.page = <<"2">> /\ qr.limit \in {<<"1">>, <<"2">>}}

Chars(text) ==
    CASE text = "Ann" -> <<"A", "n", "n">>
      [] text = "Bob" -> <<"B", "o", "b">>
      [] text = "a@x.io" -> <<"a", "@", "x", ".", "i", "o">>
      [] text = "A@x.io" -> <<"A", "@", "x", ".", "i", "o">>
      [] OTHER -> <<>>

\* String.prototype.toLowerCase, character by character
LowerChar(ch) == IF ch = "A" THEN "a" ELSE IF ch = "B" THEN "b" ELSE ch
Lower(text) == [k \in 1..Len(text) |-> LowerChar(text[k])]

Digits == {"0", "1", "2", "3", "4", "5", "6", "7", "8", "9"}
DigitValue(ch) ==
    CASE ch = "0" -> 0 [] ch = "1" -> 1 [] ch = "2" -> 2 [] ch = "3" -> 3 [] ch = "4" -> 4
      [] ch = "5" -> 5 [] ch = "6" -> 6 [] ch = "7" -> 7 [] ch = "8" -> 8 [] OTHER -> 9

\* parseInt(text, 10): an optional sign, then the longest prefix of digits;
\* NaN when there is no digit.
NaN == [nan |-> TRUE, val |-> 0]
RECURSIVE DigitPrefix(_, _, _)
DigitPrefix(text, k, acc) ==
    IF k > Len(text) \/ text[k] \notin Digits
    THEN acc
    ELSE DigitPrefix(text, k + 1, 10 * acc + DigitValue(text[k]))

parseInt(text) ==
    LET neg == Len(text) > 0 /\ text[1] = "-"
        first == IF neg THEN 2 ELSE 1
    IN  IF first > Len(text) \/ text[first] \notin Digits
        THEN NaN
        ELSE [nan |-> FALSE,
              val |-> IF neg THEN 0 - DigitPrefix(text, first, 0)
                      ELSE DigitPrefix(text, first, 0)]

\* parsed || fallback : NaN and 0 are falsy
OrElse(parsed, fallback) == IF parsed.nan \/ parsed.val = 0 THEN fallback ELSE parsed.val
Max(a, b) == IF a >= b THEN a ELSE b
Min(a, b) == IF a <= b THEN a ELSE b

\* const { page = 1, limit = 100, q } = req.query
pageNumber(page) == IF page = NoParam THEN 1 ELSE Max(OrElse(parseInt(page), 1), 1)
pageSize(limit) ==
    IF limit = NoParam THEN 100 ELSE Min(Max(OrElse(parseInt(limit), 100), 1), 500)

\* q ? {...} : {}  and  if (q)
Filtering(q) == q # NoParam /\ q # <<>>

\* String.prototype.includes
Includes(text, part) ==
    \E k \in 0..(Len(text) - Len(part)) : \A j \in 1..Len(part) : text[k + j] = part[j]

\* { $regex: q, $options: 'i' } : an unanchored search in which "." stands
\* for any character
RegexSearch(text, pattern) ==
    \E k \in 0..(Len(text) - Len(pattern)) :
        \A j \in 1..Len(pattern) :
            pattern[j] = "." \/ LowerChar(text[k + j]) = LowerChar(pattern[j])

MatchesMongo(lead, q) ==
    ~Filtering(q) \/ RegexSearch(Chars(lead.name), q) \/ RegexSearch(Chars(lead.email), q)

MatchesMemory(lead, q) ==
    \/ ~Filtering(q)
    \/ Includes(Lower(Chars(lead.name)), Lower(q))
    \/ Includes(Lower(Chars(lead.email)), Lower(q))

\* the leads of a store that pass the filter, in store order
RECURSIVE Filter(_, _, _)
Filter(store, q, mongo) ==
    IF store = <<>> THEN <<>>
    ELSE LET rest == Filter(Tail(store), q, mongo)
             keep == IF mongo THEN MatchesMongo(Head(store), q)
                     ELSE MatchesMemory(Head(store), q)
         IN  IF keep THEN <<Head(store)>> \o rest ELSE rest

\* sort by createdAt, newest first; leads of equal createdAt keep their
\* insertion order (a stable sort, and the order of the createdAt index)
RECURSIVE InsertByDate(_, _)
InsertByDate(lead, sorted) ==
    IF sorted = <<>> THEN <<lead>>
    ELSE IF Head(sorted).createdAt >= lead.createdAt
    THEN <<Head(sorted)>> \o InsertByDate(lead, Tail(sorted))
    ELSE <<lead>> \o sorted

RECURSIVE SortNewestFirst(_)
SortNewestFirst(leads) ==
    IF leads = <<>> THEN <<>>
    ELSE InsertByDate(leads[Len(leads)], SortNewestFirst(SubSeq(leads, 1, Len(leads) - 1)))

\* .skip((pageNumber - 1) * pageSize).limit(pageSize)  and  leads.slice(start, start + pageSize)
SliceFromSecond(leads, start, size) == SubSeq(leads, start + 2, Min(start + size, Len(leads)))
Slice(leads, start, size) == SubSeq(leads, start + 1, Min(start + size, Len(leads)))

NoQuery == [page |-> NoParam, limit |-> NoParam, q |-> NoParam]
NoListing == [total |-> 0, page |-> 0, limit |-> 0, leads |-> <<>>, storage |-> "none"]

\* the body of the 200 response of GET /api/leads
ListLeads(store, query, mongo) ==
    LET matching == SortNewestFirst(Filter(store, query.q, mongo))
        size == pageSize(query.limit)
        start == (pageNumber(query.page) - 1) * size
    IN  [total |-> Len(matching), page |-> pageNumber(query.page), limit |-> size,
         leads |-> Slice(matching, start, size),
         storage |-> IF mongo THEN "mongodb" ELSE "in-memory"]

\* ---------------------------------------------------------------- state
VARIABLES
    readyState,         \* mongoose.connection.readyState
    dbLeads,            \* the persistent leads collection, in insertion order
    dbAnalytics,        \* the persistent 'global_analytics' document, or NoDoc
    priorDoc,           \* that document as the process found it at start
    fallbackLeads,      \* in-memory lead list
    fallbackAnalytics,  \* in-memory counters
    OPENAI_API_KEY,     \* TRUE when the key is configured
    isConfigured,       \* GmailService.isConfigured
    req,                \* the requests: position in the handler, locals, response
    timers,             \* the setTimeout callbacks of each captured lead
    sent,               \* sendEmail calls, per capture request and type argument
    now,                \* Date.now(), milliseconds since process start
    database,           \* the Database object: its variant, flag and listeners
    probe               \* the last call of the renderer or of the dispatcher, with its result

vars == <<readyState, dbLeads, dbAnalytics, priorDoc, fallbackLeads, fallbackAnalytics,
          OPENAI_API_KEY, isConfigured, database, probe, req, timers, sent, now>>

NoBody == [name |-> ABSENT, email |-> ABSENT]
NoResp == [status |-> 0, error |-> "", leadId |-> NoId]
IdleReq == [pc |-> "idle", kind |-> "none", body |-> NoBody, event |-> "none", field |-> NoField,
            lead |-> NoLead, doc |-> NoDoc, resp |-> NoResp, log |-> <<>>,
            query |-> NoQuery, listing |-> NoListing]

UnarmedTimer == [st |-> "unarmed", start |-> 0, due |-> 0]

NoProbe == [fn |-> "none", leadName |-> ABSENT, answersName |-> ABSENT, type |-> "welcome",
            store |-> "ok", ai |-> "unconfigured", content |-> NoContent, name |-> "",
            configured |-> FALSE, hasContent |-> FALSE, transport |-> "ok",
            result |-> NoResult, attempts |-> 0, answers |-> NoAnswers,
            recommendation |-> NoRecommendation]

\* The repository holds three versions of the Database class.
Variants == {"plain", "serverless", "flagged"}
\* the Database object of the version whose status is the ready-state alone,
\* once its connect() has succeeded; its listeners only log
SettledDatabase ==
    [variant |-> "plain", isConnected |-> FALSE, listening |-> TRUE, phase |-> "settled"]
NewDatabase(variant) ==
    [variant |-> variant, isConnected |-> FALSE, listening |-> FALSE, phase |-> "new"]

\* Database.getConnectionStatus().connected
connected ==
    CASE database.variant = "plain" -> readyState = 1
      [] database.variant = "serverless" ->
            readyState = 1 \/ (readyState = 2 /\ database.isConnected)
      [] OTHER -> readyState = 1 /\ database.isConnected

Init ==
    /\ readyState \in {0, 1}
    /\ dbLeads = <<>>
    /\ dbAnalytics \in PriorAnalytics
    /\ priorDoc = dbAnalytics
    /\ fallbackLeads = <<>>
    /\ fallbackAnalytics = ZeroAnalytics
    /\ OPENAI_API_KEY \in BOOLEAN
    /\ isConfigured \in BOOLEAN
    /\ req = [r \in AllRequests |-> IdleReq]
    /\ timers = [r \in AllRequests |-> [t \in ScheduledTypes |-> UnarmedTimer]]
    /\ sent = [r \in AllRequests |-> [t \in StageKeys |-> 0]]
    /\ now = 0
    /\ probe = NoProbe
    /\ database = SettledDatabase

\* ------------------------------------------------------ handler pieces
Logged(rq, ev) == [rq EXCEPT !.log = Append(@, ev)]

OkResp(id) == [status |-> 200, error |-> "", leadId |-> id]
ErrResp(code, msg) == [status |-> code, error |-> msg, leadId |-> NoId]

\* res.json / res.status(..).json: the handler's last statement.
Respond(r, rq, resp) ==
    req' = [req EXCEPT ![r] = [Logged(rq, "respond") EXCEPT !.pc = "done", !.resp = resp,
                                                            !.doc = NoDoc]]

\* The catch block of app.post('/api/leads').
LeadCatch(r, rq, code) ==
    IF code = 11000
    THEN Respond(r, rq, ErrResp(400, "Email already exists"))
    ELSE Respond(r, rq, ErrResp(500, "Failed to process lead"))

\* scheduleEmailSequence: one setTimeout per entry of emailSchedule.
\* A delay above 2^31 - 1 ms makes Node fire the timer after 1 ms.
TimeoutDelay(delay) == IF delay > 2147483647 THEN 1 ELSE delay
ScheduleEntry(t) ==
    CHOOSE x \in {emailSchedule[i] : i \in 1..Len(emailSchedule)} : x.type = t
scheduleEmailSequence(tm, time) ==
    [t \in ScheduledTypes |->
        [st |-> "armed", start |-> time, due |-> time + TimeoutDelay(ScheduleEntry(t).delay)]]

\* After the awaited triggerWelcomeEmail: schedule the follow-ups, answer.
AfterWelcome(r, rq) ==
    /\ timers' = [timers EXCEPT ![r] = scheduleEmailSequence(@, now)]
    /\ Respond(r, Logged(Logged(rq, "sent"), "arm"), OkResp(rq.lead.leadId))

\* server.js sendEmail -> emailService.sendEmail: with the transport
\* configured the call awaits transporter.sendMail, otherwise the mock
\* response is built at once.
SendWelcome(r, rq) ==
    /\ sent' = [sent EXCEPT ![r]["welcome"] = @ + 1]
    /\ IF isConfigured
       THEN /\ req' = [req EXCEPT ![r] = [Logged(rq, "send") EXCEPT !.pc = "mail"]]
            /\ UNCHANGED timers
       ELSE AfterWelcome(r, Logged(rq, "send"))

\* triggerWelcomeEmail once emailContent is known: reading .subject of a null
\* content, or a generator that raised, ends in the handler's catch block.
UseWelcomeContent(r, rq, c) ==
    IF ContentUsable(c)
    THEN SendWelcome(r, rq)
    ELSE /\ LeadCatch(r, rq, 0)
         /\ UNCHANGED <<sent, timers>>

\* triggerWelcomeEmail -> generatePersonalizedEmail(.., 'welcome').
triggerWelcomeEmail(r, rq) ==
    IF OPENAI_API_KEY
    THEN /\ req' = [req EXCEPT ![r] = [rq EXCEPT !.pc = "ai"]]
         /\ UNCHANGED <<sent, timers>>
    ELSE \E store \in TemplateStores :
            UseWelcomeContent(r, rq, generateFallbackEmail("welcome", store))

\* Mutant: the capture handler schedules the follow-ups and answers without
\* triggering the welcome email first.
AfterAnalyticsNoWelcome(r, rq) ==
    IF rq.kind = "track"
    THEN /\ Respond(r, rq, OkResp(NoId))
         /\ UNCHANGED <<sent, timers>>
    ELSE /\ timers' = [timers EXCEPT ![r] = scheduleEmailSequence(@, now)]
         /\ Respond(r, Logged(rq, "arm"), OkResp(rq.lead.leadId))
         /\ UNCHANGED sent

\* What follows `await updateAnalytics(..)` in the two handlers that call it.
AfterAnalytics(r, rq) ==
    IF rq.kind = "track"
    THEN /\ Respond(r, rq, OkResp(NoId))
         /\ UNCHANGED <<sent, timers>>
    ELSE triggerWelcomeEmail(r, rq)

\* The catch block of updateAnalytics.
AnalyticsCatch(r, rq) ==
    /\ fallbackAnalytics' = Increment(fallbackAnalytics, rq.field)
    /\ UNCHANGED dbAnalytics
    /\ AfterAnalytics(r, Logged(rq, "inc"))

\* updateAnalytics(field) up to its first await.
updateAnalytics(r, rq0, field) ==
    LET rq == [rq0 EXCEPT !.field = field] IN
    IF connected
    THEN /\ req' = [req EXCEPT ![r] = [rq EXCEPT !.pc = "an_find"]]
         /\ UNCHANGED <<dbAnalytics, fallbackAnalytics, sent, timers>>
    ELSE /\ fallbackAnalytics' = Bumped(fallbackAnalytics, field)
         /\ UNCHANGED dbAnalytics
         /\ AfterAnalytics(r, Logged(rq, "inc"))

\* Mutant: the email is left out of requiredFields.
MissingFieldNameOnly(body) ==
    IF Falsy(body.name) THEN "name" ELSE ""

\* for (const field of requiredFields) if (!req.body[field]) return 400
MissingField(body) ==
    IF Falsy(body.name) THEN "name" ELSE IF Falsy(body.email) THEN "email" ELSE ""

\* ---------------------------------------------------------------- actions
Startable(r) == req[r].pc = "idle" /\ (IF r = 1 THEN TRUE ELSE req[r - 1].pc # "idle")

\* POST /api/leads arrives: validation, backend choice, and in fallback mode
\* the push and everything up to the next awaited I/O call.
StartLead(r) ==
    /\ Startable(r)
    /\ \E n \in Names, e \in Emails, i \in BodyLeadIds, rnd \in RandomSuffixes :
        LET body == [name |-> n, email |-> e]
            rq == [IdleReq EXCEPT !.kind = "lead", !.body = body]
        IN  IF MissingField(body) # ""
            THEN /\ Respond(r, rq, ErrResp(400, "field is required"))
                 /\ UNCHANGED <<dbLeads, fallbackLeads, dbAnalytics, fallbackAnalytics,
                                sent, timers>>
            ELSE IF connected
            THEN /\ req' = [req EXCEPT ![r] =
                        [rq EXCEPT !.pc = "saving",
                                   !.lead = [leadId |-> LeadIdOf(i, now, rnd),
                                             name |-> n, email |-> toLowerCase(e),
                                             createdAt |-> now]]]
                 /\ UNCHANGED <<dbLeads, fallbackLeads, dbAnalytics, fallbackAnalytics,
                                sent, timers>>
            ELSE LET lead == [leadId |-> LeadIdOf(i, now, rnd), name |-> n, email |-> e,
                              createdAt |-> now]
                 IN  /\ fallbackLeads' = Append(fallbackLeads, lead)
                     /\ UNCHANGED dbLeads
                     /\ updateAnalytics(r, Logged([rq EXCEPT !.lead = lead], "save"),
                                        "leadCaptures")
    /\ UNCHANGED <<readyState, priorDoc, OPENAI_API_KEY, isConfigured, database, probe, now>>

\* Lead.save(): schema validation, then the insert under the unique index on
\* leadId; the environment may fail the operation.
LeadIdTaken(id) == \E k \in 1..Len(dbLeads) : dbLeads[k].leadId = id

LeadSaveDone(r) ==
    /\ req[r].pc = "saving"
    /\ LET rq == req[r] IN
       \/ \* the driver raises (no connection, timeout)
          /\ LeadCatch(r, rq, 0)
          /\ UNCHANGED <<dbLeads, dbAnalytics, fallbackAnalytics, sent, timers>>
       \/ \* required: true fails on an empty leadId
          /\ ~IdNonEmpty(rq.lead.leadId)
          /\ LeadCatch(r, rq, 0)
          /\ UNCHANGED <<dbLeads, dbAnalytics, fallbackAnalytics, sent, timers>>
       \/ \* E11000 duplicate key on leadId
          /\ IdNonEmpty(rq.lead.leadId)
          /\ LeadIdTaken(rq.lead.leadId)
          /\ LeadCatch(r, rq, 11000)
          /\ UNCHANGED <<dbLeads, dbAnalytics, fallbackAnalytics, sent, timers>>
       \/ /\ IdNonEmpty(rq.lead.leadId)
          /\ ~LeadIdTaken(rq.lead.leadId)
          /\ dbLeads' = Append(dbLeads, rq.lead)
          /\ updateAnalytics(r, Logged(rq, "save"), "leadCaptures")
    /\ UNCHANGED <<readyState, priorDoc, fallbackLeads, OPENAI_API_KEY, isConfigured, database, probe, now>>

\* switch (event) of app.post('/api/analytics/track')
updateField(event) ==
    CASE event = "page_view" -> "pageViews"
      [] event = "assessment_started" -> "assessmentStarts"
      [] event = "assessment_completed" -> "assessmentCompletions"
      [] OTHER -> NoField

\* POST /api/analytics/track arrives.
StartTrack(r) ==
    /\ Startable(r)
    /\ \E event \in Events :
        LET rq == [IdleReq EXCEPT !.kind = "track", !.event = event] IN
        IF updateField(event) # NoField
        THEN updateAnalytics(r, rq, updateField(event))
        ELSE /\ Respond(r, rq, OkResp(NoId))
             /\ UNCHANGED <<dbAnalytics, fallbackAnalytics, sent, timers>>
    /\ UNCHANGED <<readyState, priorDoc, dbLeads, fallbackLeads, OPENAI_API_KEY, isConfigured, database, probe, now>>

\* Analytics.getGlobalAnalytics: `await this.findById('global_analytics')`
\* completes.  A found document is incremented locally and its save awaited;
\* otherwise a new document is built and its save awaited.
AnalyticsFindDone(r) ==
    /\ req[r].pc = "an_find"
    /\ LET rq == req[r] IN
       \/ AnalyticsCatch(r, rq)
       \/ /\ req' = [req EXCEPT ![r] =
                 IF dbAnalytics = NoDoc
                 THEN [rq EXCEPT !.pc = "an_create", !.doc = ZeroAnalytics]
                 ELSE [rq EXCEPT !.pc = "an_save", !.doc = dbAnalytics]]
          /\ UNCHANGED <<dbAnalytics, fallbackAnalytics, sent, timers>>
    /\ UNCHANGED <<readyState, priorDoc, dbLeads, fallbackLeads, OPENAI_API_KEY, isConfigured, database, probe, now>>

\* getGlobalAnalytics: the awaited save of the new document completes (an
\* insert: it fails with a duplicate _id when the document exists by now).
AnalyticsCreateDone(r) ==
    /\ req[r].pc = "an_create"
    /\ LET rq == req[r] IN
       \/ AnalyticsCatch(r, rq)
       \/ \* E11000 duplicate key on _id 'global_analytics'
          /\ dbAnalytics # NoDoc
          /\ AnalyticsCatch(r, Logged(rq, "duplicate_id"))
       \/ /\ dbAnalytics = NoDoc
          /\ dbAnalytics' = ZeroAnalytics
          /\ req' = [req EXCEPT ![r] = [rq EXCEPT !.pc = "an_save"]]
          /\ UNCHANGED <<fallbackAnalytics, sent, timers>>
    /\ UNCHANGED <<readyState, priorDoc, dbLeads, fallbackLeads, OPENAI_API_KEY, isConfigured, database, probe, now>>

\* updateAnalytics: `await analytics.save()` completes.
AnalyticsSaveDone(r) ==
    /\ req[r].pc = "an_save"
    /\ LET rq == req[r] IN
       \/ AnalyticsCatch(r, rq)
       \/ /\ dbAnalytics # NoDoc
          /\ dbAnalytics' = SaveModified(dbAnalytics, rq.doc, rq.field)
          /\ UNCHANGED fallbackAnalytics
          /\ AfterAnalytics(r, Logged(rq, "inc"))
    /\ UNCHANGED <<readyState, priorDoc, dbLeads, fallbackLeads, OPENAI_API_KEY, isConfigured, database, probe, now>>

\* generatePersonalizedEmail of the welcome email: the awaited callOpenAI
\* completes.
WelcomeAiDone(r) ==
    /\ req[r].pc = "ai"
    /\ \E outcome \in AiOutcomes, store \in TemplateStores :
          UseWelcomeContent(r, req[r], generatePersonalizedEmail(outcome, "welcome", store))
    /\ UNCHANGED <<readyState, priorDoc, dbLeads, dbAnalytics, fallbackLeads, fallbackAnalytics,
                   OPENAI_API_KEY, isConfigured, database, probe, now>>

\* sendEmail of the welcome email: the awaited transporter.sendMail completes;
\* a failure is replaced by the mock response, so the caller sees no difference.
WelcomeMailDone(r) ==
    /\ req[r].pc = "mail"
    /\ AfterWelcome(r, req[r])
    /\ UNCHANGED <<readyState, priorDoc, dbLeads, dbAnalytics, fallbackLeads, fallbackAnalytics,
                   OPENAI_API_KEY, isConfigured, database, probe, sent, now>>

\* ------------------------------------------------------------ read handlers
\* The read handlers change no lead store, no in-memory counter, no email
\* state; the persistent analytics record changes only where stated.
ReadFrame ==
    UNCHANGED <<readyState, priorDoc, dbLeads, fallbackLeads, fallbackAnalytics,
                OPENAI_API_KEY, isConfigured, database, probe, timers, sent, now>>

\* The catch block of app.get('/api/analytics').
SnapshotCatch(r, rq) == Respond(r, rq, ErrResp(500, "Failed to fetch analytics"))

\* getAssessmentFunnelData() up to its first await: with the backend
\* connected it awaits getGlobalAnalytics, otherwise it reads fallbackAnalytics
\* and the handler answers.
getAssessmentFunnelData(r, rq) ==
    IF connected
    THEN req' = [req EXCEPT ![r] = [Logged(rq, "read_db") EXCEPT !.pc = "sn_funnel"]]
    ELSE Respond(r, Logged(rq, "read_mem"), OkResp(NoId))

\* getLeadsBySource() up to its first await: with the backend connected it
\* awaits Lead.aggregate, otherwise it counts fallbackLeads and the handler
\* goes on to getAssessmentFunnelData within the same turn.
getLeadsBySource(r, rq) ==
    IF connected
    THEN req' = [req EXCEPT ![r] = [Logged(rq, "read_db") EXCEPT !.pc = "sn_source"]]
    ELSE getAssessmentFunnelData(r, Logged(rq, "read_mem"))

\* totalLeads of the snapshot: Lead.countDocuments() or fallbackLeads.length
TotalLeads(store, mongo) ==
    [NoListing EXCEPT !.total = Len(store),
                      !.storage = IF mongo THEN "mongodb" ELSE "in-memory"]

\* GET /api/analytics arrives.
StartSnapshot(r) ==
    /\ Startable(r)
    /\ LET rq == [IdleReq EXCEPT !.kind = "snapshot"] IN
       IF connected
       THEN req' = [req EXCEPT ![r] = [Logged(rq, "read_db") EXCEPT !.pc = "sn_find"]]
       ELSE getLeadsBySource(r, [Logged(rq, "read_mem") EXCEPT
                                    !.listing = TotalLeads(fallbackLeads, FALSE)])
    /\ UNCHANGED dbAnalytics
    /\ ReadFrame

\* getGlobalAnalytics of the snapshot: the awaited findById completes.
SnapshotFindDone(r) ==
    /\ req[r].pc = "sn_find"
    /\ LET rq == req[r] IN
       \/ SnapshotCatch(r, rq)
       \/ req' = [req EXCEPT ![r] =
               [rq EXCEPT !.pc = IF dbAnalytics = NoDoc THEN "sn_create" ELSE "sn_count"]]
    /\ UNCHANGED dbAnalytics
    /\ ReadFrame

\* getGlobalAnalytics of the snapshot: the awaited save of the new document
\* completes.
SnapshotCreateDone(r) ==
    /\ req[r].pc = "sn_create"
    /\ LET rq == req[r] IN
       \/ /\ SnapshotCatch(r, rq)
          /\ UNCHANGED dbAnalytics
       \/ \* E11000 duplicate key on _id 'global_analytics'
          /\ dbAnalytics # NoDoc
          /\ SnapshotCatch(r, Logged(rq, "duplicate_id"))
          /\ UNCHANGED dbAnalytics
       \/ /\ dbAnalytics = NoDoc
          /\ dbAnalytics' = ZeroAnalytics
          /\ req' = [req EXCEPT ![r] = [rq EXCEPT !.pc = "sn_count"]]
    /\ ReadFrame

\* The awaited Lead.countDocuments() completes.
SnapshotCountDone(r) ==
    /\ req[r].pc = "sn_count"
    /\ LET rq == req[r] IN
       \/ SnapshotCatch(r, rq)
       \/ req' = [req EXCEPT ![r] = [rq EXCEPT !.pc = "sn_recent",
                                               !.listing = TotalLeads(dbLeads, TRUE)]]
    /\ UNCHANGED dbAnalytics
    /\ ReadFrame

\* The awaited Lead.find()..lean() completes; the handler builds the answer
\* and calls getLeadsBySource.
SnapshotRecentDone(r) ==
    /\ req[r].pc = "sn_recent"
    /\ LET rq == req[r] IN
       \/ SnapshotCatch(r, rq)
       \/ getLeadsBySource(r, rq)
    /\ UNCHANGED dbAnalytics
    /\ ReadFrame

\* The awaited Lead.aggregate completes; its failure is caught inside
\* getLeadsBySource, which then returns {}.
SnapshotSourceDone(r) ==
    /\ req[r].pc = "sn_source"
    /\ getAssessmentFunnelData(r, req[r])
    /\ UNCHANGED dbAnalytics
    /\ ReadFrame

\* getGlobalAnalytics of getAssessmentFunnelData completes; its failure is
\* caught inside and replaced by zeros.  The handler answers.
SnapshotFunnelDone(r) ==
    /\ req[r].pc = "sn_funnel"
    /\ Respond(r, req[r], OkResp(NoId))
    /\ UNCHANGED dbAnalytics
    /\ ReadFrame

\* GET /api/leads arrives.
StartList(r) ==
    /\ Startable(r)
    /\ \E query \in ListQueries :
        LET rq == [IdleReq EXCEPT !.kind = "list", !.query = query]
        IN  IF connected
            THEN req' = [req EXCEPT ![r] = [Logged(rq, "read_db") EXCEPT !.pc = "ls_find"]]
            ELSE Respond(r, [Logged(rq, "read_mem") EXCEPT
                                !.listing = ListLeads(fallbackLeads, query, FALSE)],
                         OkResp(NoId))
    /\ UNCHANGED dbAnalytics
    /\ ReadFrame

\* The awaited Promise.all of Lead.find and Lead.countDocuments completes.
ListFindDone(r) ==
    /\ req[r].pc = "ls_find"
    /\ LET rq == req[r] IN
       \/ Respond(r, rq, ErrResp(500, "Failed to fetch leads"))
       \/ Respond(r, [rq EXCEPT !.listing = ListLeads(dbLeads, rq.query, TRUE)], OkResp(NoId))
    /\ UNCHANGED dbAnalytics
    /\ ReadFrame

\* ------------------------------------------------- renderer and dispatcher
EmailFrame ==
    UNCHANGED <<readyState, dbLeads, dbAnalytics, priorDoc, fallbackLeads, fallbackAnalytics,
                OPENAI_API_KEY, isConfigured, database, req, timers, sent, now>>

\* One call generatePersonalizedEmail(leadData.assessmentAnswers, type), as
\* triggerWelcomeEmail and the scheduled callbacks make it for a lead.
RenderEmail ==
    /\ \E a \in AnswerNames, t \in StageKeys, store \in TemplateStores, outcome \in AiOutcomes :
        LET c == IF OPENAI_API_KEY
                 THEN generatePersonalizedEmail(outcome, t, store)
                 ELSE generateFallbackEmail(t, store)
        IN  probe' = [NoProbe EXCEPT
                        !.fn = "render", !.leadName = "Ann", !.answersName = a, !.type = t,
                        !.store = store,
                        !.ai = IF OPENAI_API_KEY THEN outcome ELSE "unconfigured",
                        !.content = c,
                        !.name = IF c.src \in {"template", "ultimate"}
                                 THEN PlaceholderName(a) ELSE ""]
    /\ EmailFrame

\* One call emailService.sendEmail(emailData).
DispatchEmail ==
    /\ \E hasContent \in BOOLEAN, transport \in TransportOutcomes :
        probe' = [NoProbe EXCEPT
                    !.fn = "dispatch", !.configured = isConfigured,
                    !.hasContent = hasContent, !.transport = transport,
                    !.result = GmailSendEmail(isConfigured, hasContent, transport),
                    !.attempts = IF TransportAttempted(isConfigured, hasContent)
                                 THEN 1 ELSE 0]
    /\ EmailFrame

\* verifyConnection(), started by the constructor when the credentials are
\* present: `await this.transporter.verify()` rejects, at whatever moment.
VerifyConnectionFails ==
    /\ isConfigured
    /\ isConfigured' = FALSE
    /\ UNCHANGED <<readyState, dbLeads, dbAnalytics, priorDoc, fallbackLeads, fallbackAnalytics,
                   OPENAI_API_KEY, database, probe, req, timers, sent, now>>

\* One call generateCourseRecommendation(assessmentData).
RecommendCourse ==
    /\ \E a \in AssessmentData :
        probe' = [NoProbe EXCEPT !.fn = "recommend", !.answers = a,
                                 !.recommendation = generateCourseRecommendation(a)]
    /\ EmailFrame

\* ---------------------------------------------------------------- timers
SetTimer(r, t, st) == timers' = [timers EXCEPT ![r][t].st = st]

\* Mutant: the failure of a stage is not contained in its own callback and
\* takes the lead's remaining timers with it.
UseStageContentAbort(r, t, c) ==
    IF ContentUsable(c)
    THEN /\ sent' = [sent EXCEPT ![r][t] = @ + 1]
         /\ SetTimer(r, t, IF isConfigured THEN "mail" ELSE "done")
    ELSE /\ timers' = [timers EXCEPT ![r] =
                [x \in ScheduledTypes |->
                    IF x = t THEN [@[x] EXCEPT !.st = "failed"]
                    ELSE IF @[x].st = "armed" THEN UnarmedTimer ELSE @[x]]]
         /\ UNCHANGED sent

\* The timer callback once emailContent is known.  A failure is caught and
\* logged inside the callback.
UseStageContent(r, t, c) ==
    IF ContentUsable(c)
    THEN /\ sent' = [sent EXCEPT ![r][t] = @ + 1]
         /\ SetTimer(r, t, IF isConfigured THEN "mail" ELSE "done")
    ELSE /\ SetTimer(r, t, "failed")
         /\ UNCHANGED sent

\* A timer armed by scheduleEmailSequence expires and its callback starts.
TimerFire(r, t) ==
    /\ timers[r][t].st = "armed"
    /\ now >= timers[r][t].due
    /\ IF OPENAI_API_KEY
       THEN /\ SetTimer(r, t, "ai")
            /\ UNCHANGED sent
       ELSE \E store \in TemplateStores :
               UseStageContent(r, t, generateFallbackEmail(t, store))
    /\ UNCHANGED <<readyState, priorDoc, dbLeads, dbAnalytics, fallbackLeads, fallbackAnalytics,
                   OPENAI_API_KEY, isConfigured, database, probe, req, now>>

TimerAiDone(r, t) ==
    /\ timers[r][t].st = "ai"
    /\ \E outcome \in AiOutcomes, store \in TemplateStores :
          UseStageContent(r, t, generatePersonalizedEmail(outcome, t, store))
    /\ UNCHANGED <<readyState, priorDoc, dbLeads, dbAnalytics, fallbackLeads, fallbackAnalytics,
                   OPENAI_API_KEY, isConfigured, database, probe, req, now>>

TimerMailDone(r, t) ==
    /\ timers[r][t].st = "mail"
    /\ SetTimer(r, t, "done")
    /\ UNCHANGED <<readyState, priorDoc, dbLeads, dbAnalytics, fallbackLeads, fallbackAnalytics,
                   OPENAI_API_KEY, isConfigured, database, probe, req, sent, now>>

\* ----------------------------------------------------------- environment
\* Time passes, a day at a time.  An expired timer runs before the clock moves
\* on, and an awaited I/O call (database, OpenAI, SMTP) completes or fails
\* within the day it was issued.
TimerDue == \E r \in Requests, t \in ScheduledTypes :
                timers[r][t].st = "armed" /\ now >= timers[r][t].due
InFlight == \/ \E r \in Requests : req[r].pc \notin {"idle", "done"}
            \/ \E r \in Requests, t \in ScheduledTypes : timers[r][t].st \in {"ai", "mail"}
Tick ==
    /\ now < MaxDays * DayMs
    /\ ~TimerDue
    /\ ~InFlight
    /\ now' = now + DayMs
    /\ UNCHANGED <<readyState, priorDoc, dbLeads, dbAnalytics, fallbackLeads, fallbackAnalytics,
                   OPENAI_API_KEY, isConfigured, database, probe, req, timers, sent>>

\* The driver's connection is lost or re-established.
ConnectionChange ==
    /\ readyState' = 1 - readyState
    /\ UNCHANGED <<priorDoc, dbLeads, dbAnalytics, fallbackLeads, fallbackAnalytics,
                   OPENAI_API_KEY, isConfigured, database, probe, req, timers, sent, now>>

\* The request handlers, within one day of the clock: no timer expires.
Next ==
    \/ \E r \in Requests : StartLead(r)
    \/ \E r \in Requests : LeadSaveDone(r)
    \/ \E r \in Requests : StartTrack(r)
    \/ \E r \in Requests : AnalyticsFindDone(r)
    \/ \E r \in Requests : AnalyticsCreateDone(r)
    \/ \E r \in Requests : AnalyticsSaveDone(r)
    \/ \E r \in Requests : WelcomeAiDone(r)
    \/ \E r \in Requests : WelcomeMailDone(r)
    \/ ConnectionChange

Spec == Init /\ [][Next]_vars

\* The email sequence over time: the captures of the first MaxSeqLeads
\* requests, the clock and the timer callbacks.
SeqRequests == 1..MaxSeqLeads
NextSeq ==
    \/ \E r \in SeqRequests : StartLead(r)
    \/ \E r \in SeqRequests : LeadSaveDone(r)
    \/ \E r \in SeqRequests : AnalyticsFindDone(r)
    \/ \E r \in SeqRequests : AnalyticsCreateDone(r)
    \/ \E r \in SeqRequests : AnalyticsSaveDone(r)
    \/ \E r \in SeqRequests : WelcomeAiDone(r)
    \/ \E r \in SeqRequests : WelcomeMailDone(r)
    \/ \E r \in SeqRequests, t \in ScheduledTypes : TimerFire(r, t)
    \/ \E r \in SeqRequests, t \in ScheduledTypes : TimerAiDone(r, t)
    \/ \E r \in SeqRequests, t \in ScheduledTypes : TimerMailDone(r, t)
    \/ Tick
    \/ ConnectionChange

SpecSeq == Init /\ [][NextSeq]_vars

\* Tracking requests alone, MaxTrack of them overlapping.
NextTrack ==
    \/ \E r \in TrackRequests : StartTrack(r)
    \/ \E r \in TrackRequests : AnalyticsFindDone(r)
    \/ \E r \in TrackRequests : AnalyticsCreateDone(r)
    \/ \E r \in TrackRequests : AnalyticsSaveDone(r)
    \/ ConnectionChange

SpecTrack == Init /\ [][NextTrack]_vars

\* The two read handlers, with the connection changing under them.
NextRead ==
    \/ \E r \in Requests : StartSnapshot(r)
    \/ \E r \in Requests : SnapshotFindDone(r)
    \/ \E r \in Requests : SnapshotCreateDone(r)
    \/ \E r \in Requests : SnapshotCountDone(r)
    \/ \E r \in Requests : SnapshotRecentDone(r)
    \/ \E r \in Requests : SnapshotSourceDone(r)
    \/ \E r \in Requests : SnapshotFunnelDone(r)
    \/ \E r \in Requests : StartList(r)
    \/ \E r \in Requests : ListFindDone(r)
    \/ ConnectionChange

SpecRead == Init /\ [][NextRead]_vars

\* The listing handler over stores that earlier captures have filled: the
\* collection persists across processes, the in-memory list holds what this
\* process pushed while disconnected.
MaxListLeads == 3
ListRequests == 1..1
ListNames == {"Ann", "Bob"}
CreatedAts == {0, DayMs}

StoredLead(k, name, at) ==
    [leadId |-> generateLeadId(at, k), name |-> name, email |-> "a@x.io", createdAt |-> at]

Stores ==
    UNION { { [k \in 1..n |-> StoredLead(k, f[k][1], f[k][2])] :
                f \in { g \in [1..n -> ListNames \X CreatedAts] :
                          \A k \in 1..(n - 1) : g[k][2] <= g[k + 1][2] } } :
            n \in 0..MaxListLeads }

InitList ==
    /\ readyState \in {0, 1}
    /\ dbLeads \in Stores
    /\ fallbackLeads \in {st \in Stores : Len(st) + Len(dbLeads) <= MaxListLeads}
    /\ dbAnalytics = NoDoc
    /\ priorDoc = dbAnalytics
    /\ fallbackAnalytics = [ZeroAnalytics EXCEPT !.leadCaptures = Len(fallbackLeads)]
    /\ OPENAI_API_KEY = FALSE
    /\ isConfigured = FALSE
    /\ req = [r \in AllRequests |-> IdleReq]
    /\ timers = [r \in AllRequests |-> [t \in ScheduledTypes |-> UnarmedTimer]]
    /\ sent = [r \in AllRequests |-> [t \in StageKeys |-> 0]]
    /\ now = DayMs
    /\ probe = NoProbe
    /\ database = SettledDatabase

NextList ==
    \/ \E r \in ListRequests : StartList(r)
    \/ \E r \in ListRequests : ListFindDone(r)
    \/ ConnectionChange

SpecList == InitList /\ [][NextList]_vars

\* One capture, and once it has been answered the read handlers, with the
\* connection changing at any moment.
ReadRequests == Requests \ SeqRequests
CapturesAnswered == \A r \in SeqRequests : req[r].pc = "done"
NextStore ==
    \/ \E r \in SeqRequests : StartLead(r)
    \/ \E r \in SeqRequests : LeadSaveDone(r)
    \/ \E r \in SeqRequests : AnalyticsFindDone(r)
    \/ \E r \in SeqRequests : AnalyticsCreateDone(r)
    \/ \E r \in SeqRequests : AnalyticsSaveDone(r)
    \/ \E r \in SeqRequests : WelcomeAiDone(r)
    \/ \E r \in SeqRequests : WelcomeMailDone(r)
    \/ \E r \in ReadRequests : CapturesAnswered /\ StartList(r)
    \/ \E r \in ReadRequests : ListFindDone(r)
    \/ \E r \in ReadRequests : CapturesAnswered /\ StartSnapshot(r)
    \/ \E r \in ReadRequests : SnapshotFindDone(r)
    \/ \E r \in ReadRequests : SnapshotCreateDone(r)
    \/ \E r \in ReadRequests : SnapshotCountDone(r)
    \/ \E r \in ReadRequests : SnapshotRecentDone(r)
    \/ \E r \in ReadRequests : SnapshotSourceDone(r)
    \/ \E r \in ReadRequests : SnapshotFunnelDone(r)
    \/ ConnectionChange

SpecStore == Init /\ [][NextStore]_vars

\* The connection's life: database.connect() at module load, the driver's
\* events afterwards, and listings routed by the status meanwhile.
ConnFrame ==
    UNCHANGED <<dbLeads, dbAnalytics, priorDoc, fallbackLeads, fallbackAnalytics,
                OPENAI_API_KEY, isConfigured, probe, req, timers, sent, now>>

\* connect() up to `await mongoose.connect(...)`; two versions return at once
\* when the driver is already connected.
Connect ==
    /\ database.phase = "new"
    /\ IF database.variant # "plain" /\ readyState = 1
       THEN /\ database' = [database EXCEPT !.isConnected = TRUE, !.phase = "settled"]
            /\ UNCHANGED readyState
       ELSE /\ database' = [database EXCEPT !.phase = "connecting"]
            /\ readyState' = 2
    /\ ConnFrame

\* `await mongoose.connect(...)` settles: on success the flag is set and the
\* listeners are registered, on failure the catch block clears the flag.
ConnectDone ==
    /\ database.phase = "connecting"
    /\ \/ /\ readyState' = 1
          /\ database' = [database EXCEPT !.isConnected = (database.variant # "plain"),
                                          !.listening = TRUE, !.phase = "settled"]
       \/ /\ readyState' = 0
          /\ database' = [database EXCEPT !.phase = "settled"]
    /\ ConnFrame

Flagged(value) ==
    IF database.listening /\ database.variant # "plain"
    THEN [database EXCEPT !.isConnected = value]
    ELSE database

\* mongoose.connection emits 'error': the ready-state stays as it is.
ErrorEvent ==
    /\ database.phase = "settled" /\ readyState = 1
    /\ database' = Flagged(FALSE)
    /\ UNCHANGED readyState
    /\ ConnFrame

\* The driver loses the server: ready-state 0 and 'disconnected'.
DisconnectedEvent ==
    /\ database.phase = "settled" /\ readyState = 1
    /\ readyState' = 0
    /\ database' = Flagged(FALSE)
    /\ ConnFrame

\* The driver finds the server again: ready-state 1 and 'reconnected'.
ReconnectedEvent ==
    /\ database.phase = "settled" /\ readyState = 0 /\ database.listening
    /\ readyState' = 1
    /\ database' = Flagged(TRUE)
    /\ ConnFrame

InitConn ==
    /\ readyState = 0
    /\ database \in {NewDatabase(v) : v \in Variants}
    /\ dbLeads = <<>>
    /\ dbAnalytics = NoDoc
    /\ priorDoc = dbAnalytics
    /\ fallbackLeads = <<>>
    /\ fallbackAnalytics = ZeroAnalytics
    /\ OPENAI_API_KEY = FALSE
    /\ isConfigured = FALSE
    /\ req = [r \in AllRequests |-> IdleReq]
    /\ timers = [r \in AllRequests |-> [t \in ScheduledTypes |-> UnarmedTimer]]
    /\ sent = [r \in AllRequests |-> [t \in StageKeys |-> 0]]
    /\ now = 0
    /\ probe = NoProbe

NextConn ==
    \/ Connect
    \/ ConnectDone
    \/ ErrorEvent
    \/ DisconnectedEvent
    \/ ReconnectedEvent
    \/ \E r \in ListRequests : StartList(r)
    \/ \E r \in ListRequests : ListFindDone(r)

SpecConn == InitConn /\ [][NextConn]_vars

\* The renderer and the dispatcher, one call at a time.
NextEmail ==
    \/ RenderEmail
    \/ DispatchEmail
    \/ RecommendCourse
    \/ VerifyConnectionFails

SpecEmail == Init /\ [][NextEmail]_vars

\* =================================================================
\* Properties
\* =================================================================
Has(log, ev) == \E i \in 1..Len(log) : log[i] = ev
Pos(log, ev) == IF Has(log, ev) THEN CHOOSE i \in 1..Len(log) : log[i] = ev ELSE 0
Count(log, ev) == Cardinality({i \in 1..Len(log) : log[i] = ev})
Before(log, a, b) == Has(log, b) => (Has(log, a) /\ Pos(log, a) < Pos(log, b))

Finished(r) == req[r].pc = "done"
Capture(r) == req[r].kind = "lead"
Succeeded(r) == Finished(r) /\ req[r].resp.status = 200
BodyInvalid(r) == req[r].body.name \in {ABSENT, ""} \/ req[r].body.email \in {ABSENT, ""}

EmailsDistinct(store) ==
    \A i, j \in 1..Len(store) :
        i # j => toLowerCase(store[i].email) # toLowerCase(store[j].email)
IdsDistinct(store) ==
    \A i, j \in 1..Len(store) : i # j => store[i].leadId # store[j].leadId

\* C1: in each backend no two stored leads have emails that are equal
\* ignoring case: of two captures with such emails one is rejected.
C1_EmailUniquePerBackend ==
    EmailsDistinct(dbLeads) /\ EmailsDistinct(fallbackLeads)

\* C2: a capture request whose lead record was saved answers with success,
\* whatever the analytics increment, the welcome email's generation or the
\* transport did afterwards.
C2_SavedLeadSucceeds ==
    \A r \in Requests :
        (Finished(r) /\ Capture(r) /\ Has(req[r].log, "save")) => req[r].resp.status = 200

\* C3: for a successfully captured lead the welcome email is dispatched once
\* within the request, and every delayed stage whose callback has run was
\* dispatched exactly once, with its stage key as type and not before its
\* offset.
C3_EachStageDispatchedOnce ==
    \A r \in Requests :
        /\ (Capture(r) /\ Succeeded(r)) => sent[r]["welcome"] = 1
        /\ \A t \in ScheduledTypes :
            /\ sent[r][t] <= 1
            /\ timers[r][t].st \in {"done", "failed"} => sent[r][t] = 1
            /\ sent[r][t] = 1 => now >= timers[r][t].start + ScheduleEntry(t).delay

\* C4: a captured lead gets one immediate dispatch and exactly four delayed
\* stages, a five-email sequence.
C4_FiveEmailSequence ==
    \A r \in Requests :
        (Capture(r) /\ Succeeded(r)) =>
            /\ sent[r]["welcome"] = 1
            /\ Cardinality({t \in ScheduledTypes : timers[r][t].st # "unarmed"}) = 4

\* C5: when a delayed stage of a lead has failed, every other stage of that
\* lead is still armed for, or has run at, capture time plus its own offset:
\* none is cancelled and none is left waiting past its expiry.
C5_StageFailureIsolated ==
    \A r \in Requests : \A t, t2 \in ScheduledTypes :
        (t # t2 /\ timers[r][t2].st = "failed") =>
            /\ timers[r][t].st # "unarmed"
            /\ timers[r][t].due = timers[r][t].start + ScheduleEntry(t).delay
            /\ timers[r][t].start = timers[r][t2].start
            /\ now > timers[r][t].due => timers[r][t].st \in {"done", "failed"}

\* C5 witness: a stage failed and a later stage of the same lead was
\* dispatched.
C5_Witness ==
    \E r \in Requests : \E t, t2 \in ScheduledTypes :
        /\ timers[r][t2].st = "failed"
        /\ timers[r][t2].due < timers[r][t].due
        /\ timers[r][t].st = "done"
        /\ sent[r][t] = 1

\* C6: within a capture request the lead is saved, then leadCaptures is
\* incremented, then the welcome email is dispatched; the follow-up stages
\* are armed and the success response is sent only after that dispatch has
\* completed.
C6_CaptureOrder ==
    \A r \in Requests : Capture(r) =>
        LET log == req[r].log IN
        /\ \A ev \in {"save", "inc", "send", "sent", "arm", "respond"} : Count(log, ev) <= 1
        /\ Before(log, "save", "inc")
        /\ Before(log, "inc", "send")
        /\ Before(log, "send", "sent")
        /\ Before(log, "sent", "arm")
        /\ Succeeded(r) => (Has(log, "arm") /\ Pos(log, "arm") < Pos(log, "respond"))
        /\ Has(log, "send") <=> sent[r]["welcome"] = 1
        /\ Has(log, "arm") <=> (\A t \in ScheduledTypes : timers[r][t].st # "unarmed")
        /\ Has(log, "arm") <=> (\E t \in ScheduledTypes : timers[r][t].st # "unarmed")
        /\ Has(log, "sent") => req[r].pc # "mail"
        /\ req[r].pc \in {"an_find", "an_create", "an_save"} => ~Has(log, "send")

\* C6 witness: a capture went through all five steps, in order, with a real
\* transport call awaited in between.
C6_Witness ==
    \E r \in Requests :
        /\ Capture(r) /\ Succeeded(r) /\ isConfigured
        /\ req[r].log = <<"save", "inc", "send", "sent", "arm", "respond">>

\* C7: a capture request without a name or an email is answered 400 at once
\* and changes nothing: no store, no counter, no dispatch, no timer.
C7_InvalidRejected ==
    /\ [](\A r \in Requests : (Capture(r) /\ BodyInvalid(r)) =>
            /\ Finished(r)
            /\ req[r].resp.status = 400
            /\ req[r].log = <<"respond">>
            /\ \A t \in ScheduledTypes : timers[r][t].st = "unarmed"
            /\ \A t \in StageKeys : sent[r][t] = 0)
    /\ [][\A r \in Requests :
            (req[r].pc = "idle" /\ req'[r].kind = "lead" /\
             (req'[r].body.name \in {ABSENT, ""} \/ req'[r].body.email \in {ABSENT, ""}))
            => UNCHANGED <<dbLeads, fallbackLeads, dbAnalytics, fallbackAnalytics,
                           timers, sent>>]_vars

\* C7 witness: a request with a name and an empty email was rejected.
C7_Witness ==
    \E r \in Requests :
        /\ Capture(r) /\ Finished(r)
        /\ req[r].body.name = "Ann" /\ req[r].body.email = ""
        /\ req[r].resp.status = 400

\* C8: every successful capture returns a non-empty leadId, and the leads of
\* one backend have pairwise different leadIds.
C8_LeadIdUniqueNonEmpty ==
    /\ \A r \in Requests : (Capture(r) /\ Succeeded(r)) => IdNonEmpty(req[r].resp.leadId)
    /\ IdsDistinct(dbLeads)
    /\ IdsDistinct(fallbackLeads)

\* C9: every completed call of the analytics increment added exactly 1 to its
\* field in exactly one store: per field, the two stores together have grown
\* by the number of completed calls.
Stored(doc, f) == IF doc = NoDoc THEN 0 ELSE doc[f]
Calls(f) == Cardinality({r \in Requests : req[r].field = f /\ Has(req[r].log, "inc")})
C9_EveryIncrementCounted ==
    \A f \in Fields :
        (Stored(dbAnalytics, f) - Stored(priorDoc, f)) + fallbackAnalytics[f] = Calls(f)

\* C10: a store with assessmentStarts = 10 and leadCaptures = 2 has
\* conversionRate = 20, whatever the order of the operations that led there.
RateIsTwenty(a) ==
    (a.assessmentStarts = 10 /\ a.leadCaptures = 2) =>
        a.conversionRate.num = 20 * a.conversionRate.den
C10_RateIsTwenty == RateIsTwenty(dbAnalytics) /\ RateIsTwenty(fallbackAnalytics)

\* C11: every step that changes leadCaptures or assessmentCompletions in a
\* store leaves that store with conversionRate = leadCaptures /
\* assessmentStarts * 100 when assessmentStarts > 0, the in-memory increment
\* taken after a persistent-backend error included.
RateConsistent(a) ==
    a.assessmentStarts > 0 =>
        a.conversionRate.num * a.assessmentStarts = 100 * a.leadCaptures * a.conversionRate.den
RecomputedOnChange(old, new) ==
    (\E f \in RecomputedFields : new[f] # old[f]) => RateConsistent(new)
C11_RateRecomputedOnEveryPath ==
    [][/\ RecomputedOnChange(fallbackAnalytics, fallbackAnalytics')
       /\ RecomputedOnChange(dbAnalytics, dbAnalytics')]_vars

\* C12: no step, under any interleaving of requests, decreases a counter of
\* the persistent analytics record or of the in-memory mirror.
C12_CountersNeverDecrease ==
    [][\A f \in Fields :
          /\ Stored(dbAnalytics', f) >= Stored(dbAnalytics, f)
          /\ fallbackAnalytics'[f] >= fallbackAnalytics[f]]_vars

\* C13: lead save, leads listing and analytics snapshot each use one store,
\* the one the connection status selects: a finished listing or snapshot has
\* read the persistent store only or the in-memory mirror only, and a lead
\* save changes one lead list only, the persistent one exactly when the
\* status was connected.
C13_OneStorePerOperation ==
    /\ [](\A r \in AllRequests :
            (Finished(r) /\ req[r].kind \in {"snapshot", "list"}) =>
                ~(Has(req[r].log, "read_db") /\ Has(req[r].log, "read_mem")))
    /\ [][/\ (dbLeads' # dbLeads) => (fallbackLeads' = fallbackLeads)
          /\ (fallbackLeads' # fallbackLeads) => (~connected /\ dbLeads' = dbLeads)]_vars

\* C14: a capture that finds the persistent store unreachable, or whose
\* persistent save fails for a reason other than a duplicate key, stores the
\* lead in the in-memory list, and the failed save is not answered with an
\* error.
C14_SaveFailureFallsBack ==
    [][\A r \in AllRequests :
          /\ (/\ req[r].pc = "idle" /\ req'[r].kind = "lead"
              /\ MissingField(req'[r].body) = "" /\ ~connected)
             => fallbackLeads' = Append(fallbackLeads, req'[r].lead)
          /\ (/\ req[r].pc = "saving" /\ req'[r].pc # "saving"
              /\ dbLeads' = dbLeads
              /\ req'[r].resp.error # "Email already exists")
             => /\ fallbackLeads' = Append(fallbackLeads, req[r].lead)
                /\ req'[r].resp.status \notin {400, 500}]_vars

\* C15: a dispatch returns success = true and a non-empty message id on every
\* path; its provider is 'mock' exactly when the transport is unconfigured or
\* the transport call failed, and the transport's name exactly when the
\* transport call succeeded.
C15_DispatchResult ==
    probe.fn = "dispatch" =>
        LET attempted == TransportAttempted(probe.configured, probe.hasContent) IN
        /\ probe.result.success
        /\ probe.result.messageId # ""
        /\ probe.result.provider = "mock"
              <=> (~probe.configured \/ (attempted /\ probe.transport = "fails"))
        /\ probe.result.provider = "gmail" <=> (attempted /\ probe.transport = "ok")

\* C16: for a stage key that has an entry in the template store the renderer
\* returns that key's own template; only a missing key or a missing store
\* gives the hardcoded generic template.
C16_OwnTemplatePerStage ==
    (probe.fn = "render" /\ probe.content.src \in {"template", "ultimate"}) =>
        /\ probe.store = "ok" =>
              (probe.content.src = "template" /\ probe.content.key = probe.type)
        /\ probe.content.src = "ultimate" =>
              probe.store \in {"missing", "unparsable", "nokey"}

\* C17: in every email of a lead's sequence the {{name}} placeholder is
\* replaced by the lead's name as given at capture.
C17_PlaceholderIsLeadName ==
    (probe.fn = "render" /\ probe.content.src \in {"template", "ultimate"}) =>
        probe.name = probe.leadName

\* C18: the rule-based renderer never throws, for any stage key, any answers
\* and any state of the template store, and returns subject and content.
C18_RenderNeverThrows ==
    (probe.fn = "render" /\ probe.content.src # "ai") =>
        (~probe.content.threw /\ probe.content.hasFields)

\* C19: when the AI generation is unconfigured, throws or returns malformed
\* output, the content comes from the rule-based path and no error reaches
\* the caller.
C19_MalformedAiFallsBack ==
    (probe.fn = "render" /\ probe.ai \in {"unconfigured", "throws", "unparsable", "null", "bare"}) =>
        /\ probe.content.src \in {"template", "ultimate"}
        /\ ContentUsable(probe.content)
        /\ probe.content.hasFields

\* C20: a tracking request with event page_view, assessment_started or
\* assessment_completed adds exactly 1 to the matching counter and leaves the
\* other counters alone; a request with any other event name is answered
\* with success and leaves every counter and conversionRate of both stores
\* unchanged.
MatchingCounter ==
    [page_view |-> "pageViews", assessment_started |-> "assessmentStarts",
     assessment_completed |-> "assessmentCompletions"]
CountersGrewBy(old, new, f, n) ==
    \A g \in Fields : Stored(new, g) = Stored(old, g) + (IF g = f THEN n ELSE 0)
C20_TrackIncrementsMatchingCounter ==
    [][\A r \in AllRequests :
          /\ (/\ req'[r].kind = "track" /\ req'[r].event \in DOMAIN MatchingCounter
              /\ ~Has(req[r].log, "inc") /\ Has(req'[r].log, "inc"))
             => LET f == MatchingCounter[req'[r].event] IN
                \/ /\ CountersGrewBy(dbAnalytics, dbAnalytics', f, 1)
                   /\ CountersGrewBy(fallbackAnalytics, fallbackAnalytics', f, 0)
                \/ /\ CountersGrewBy(dbAnalytics, dbAnalytics', f, 0)
                   /\ CountersGrewBy(fallbackAnalytics, fallbackAnalytics', f, 1)
          /\ (/\ req[r].pc = "idle" /\ req'[r].kind = "track"
              /\ req'[r].event \notin DOMAIN MatchingCounter)
             => /\ req'[r].pc = "done" /\ req'[r].resp.status = 200
                /\ UNCHANGED <<dbAnalytics, fallbackAnalytics>>]_vars

\* ---------------------------------------------------------------- listing
Listed(r) == req[r].kind = "list" /\ req[r].pc = "done" /\ req[r].resp.status = 200
FromMongo(r) == req[r].listing.storage = "mongodb"
StoreRead(r) == IF FromMongo(r) THEN dbLeads ELSE fallbackLeads

\* the text is part of the lead's name or email, letter case aside
ContainsText(lead, q) ==
    \/ ~Filtering(q)
    \/ Includes(Lower(Chars(lead.name)), Lower(q))
    \/ Includes(Lower(Chars(lead.email)), Lower(q))
Hits(store, q) == {k \in 1..Len(store) : ContainsText(store[k], q)}

\* the leads of pages 1..n of one listing, page after page
PageText(n) == <<CHOOSE d \in Digits : DigitValue(d) = n>>
RECURSIVE PagesUpTo(_, _, _, _)
PagesUpTo(store, query, mongo, n) ==
    IF n = 0 THEN <<>>
    ELSE PagesUpTo(store, query, mongo, n - 1)
         \o ListLeads(store, [query EXCEPT !.page = PageText(n)], mongo).leads
Ids(leads) == {leads[k].leadId : k \in 1..Len(leads)}

\* C21: for every page and limit input (absent, non-numeric, zero, negative,
\* above 500) a successful listing uses a page >= 1 and a limit within 1..500,
\* returns at most limit leads, reports as total the number of leads whose
\* name or email contains the search text as a case-insensitive substring,
\* and its successive pages are disjoint and together hold every such lead.
C21_ListingWindowAndTotal ==
    \A r \in ListRequests :
        Listed(r) =>
            LET res == req[r].listing
                store == StoreRead(r)
                hits == Hits(store, req[r].query.q)
                pages == PagesUpTo(store, req[r].query, FromMongo(r), MaxListLeads)
            IN  /\ res.page >= 1
                /\ res.limit >= 1 /\ res.limit <= 500
                /\ Len(res.leads) <= res.limit
                /\ res.total = Cardinality(hits)
                /\ Len(pages) = Cardinality(hits)
                /\ Ids(pages) = {store[k].leadId : k \in hits}

\* the capture pushed its lead onto the in-memory list
InMemory(lead) == \E k \in 1..Len(fallbackLeads) : fallbackLeads[k] = lead
Unfiltered(r) == ~Filtering(req[r].query.q)
Returned(r, lead) == \E k \in 1..Len(req[r].listing.leads) : req[r].listing.leads[k] = lead

\* the first page of the listing is wide enough for every lead of the store
WholeStore(r) == req[r].listing.page = 1 /\ req[r].listing.total <= req[r].listing.limit

\* C22: when a capture that found the backend disconnected has succeeded and
\* an unfiltered listing after it also finds the backend disconnected (as both
\* do while it stays disconnected throughout), the listing, its first page
\* wide enough for the store as with the default limit, returns the lead just
\* saved and reports storage "in-memory".
C22_FallbackRoundTrip ==
    \A c \in SeqRequests, l \in ReadRequests :
        (/\ Capture(c) /\ Succeeded(c) /\ InMemory(req[c].lead)
         /\ Listed(l) /\ Has(req[l].log, "read_mem")
         /\ Unfiltered(l) /\ WholeStore(l))
        => /\ Returned(l, req[c].lead)
           /\ req[l].listing.storage = "in-memory"
C22_Witness ==
    \E c \in SeqRequests, l \in ReadRequests :
        /\ Capture(c) /\ Succeeded(c) /\ InMemory(req[c].lead)
        /\ Listed(l) /\ Has(req[l].log, "read_mem")
        /\ req[l].query = NoQuery
        /\ Returned(l, req[c].lead)
        /\ dbLeads = <<>>

\* the snapshot of GET /api/analytics was answered
Snapshot(r) == req[r].kind = "snapshot" /\ req[r].pc = "done" /\ req[r].resp.status = 200
OnSomePage(r, lead) ==
    LET pages == PagesUpTo(StoreRead(r), req[r].query, FromMongo(r), MaxListLeads)
    IN  \E k \in 1..Len(pages) : pages[k] = lead

\* C29: a lead whose capture returned success is on some page of every later
\* unfiltered listing and is counted in totalLeads of every later analytics
\* snapshot, whatever connectivity changes happen between capture and read.
C29_CapturedLeadStaysVisible ==
    \A c \in SeqRequests, l \in ReadRequests :
        (Capture(c) /\ Succeeded(c)) =>
            /\ (Listed(l) /\ Unfiltered(l)) => OnSomePage(l, req[c].lead)
            /\ Snapshot(l) => req[l].listing.total >= 1

\* C23: the recommendation is the Data Science & Analytics course whenever
\* interest is "data_science", whatever the other answers are, and the default
\* AI & Machine Learning course whenever interest is absent or is none of the
\* recognized values, or the answers are absent altogether.
Recommended == probe.fn = "recommend"
C23_CourseByInterest ==
    Recommended =>
        LET a == probe.answers
            course == probe.recommendation.recommendedCourse
        IN  /\ (a.present /\ a.interest = "data_science")
                => course = "Data Science & Analytics Program"
            /\ (~a.present \/ a.interest \notin {"data_science", "mlops", "ai_research"})
                => course = "AI & Machine Learning Program"
C23_Witness ==
    /\ Recommended
    /\ probe.answers.interest = "data_science"
    /\ probe.answers.experience = "expert"
    /\ probe.recommendation.recommendedCourse = "Data Science & Analytics Program"

\* -------------------------------------------------------------- analytics
Incremented(r, f) == req[r].field = f /\ Finished(r) /\ Has(req[r].log, "inc")
NoneInFlight == \A r \in AllRequests : req[r].pc \in {"idle", "done"}

\* C24: when k increments of one counter overlap on a connected backend and
\* all complete without error (none was taken in memory instead), the
\* persistent counter ends exactly k higher than it started.
C24_NoLostUpdate ==
    (NoneInFlight /\ fallbackAnalytics = ZeroAnalytics) =>
        \A f \in Fields :
            Stored(dbAnalytics, f) =
                Stored(priorDoc, f) + Cardinality({r \in TrackRequests : Incremented(r, f)})

\* C25: a read of the global analytics returns the one singleton record,
\* created with all counters zero when absent; under any interleaving of
\* concurrent first reads there is at most one record, it starts from zero,
\* and no read fails because another read created the record first.
C25_SingletonReadNeverFails ==
    /\ [](\A r \in AllRequests : ~Has(req[r].log, "duplicate_id"))
    /\ [][(dbAnalytics = NoDoc /\ dbAnalytics' # NoDoc) => dbAnalytics' = ZeroAnalytics]_vars

\* ------------------------------------------------------------- connection
\* C26: the status reports connected exactly when the driver's connection is
\* in the connected ready-state, after any sequence of connect, error,
\* disconnected and reconnected events; an operation that starts is routed to
\* the persistent backend exactly when the connection is established.
C26_StatusFollowsReadyState ==
    /\ [](connected <=> readyState = 1)
    /\ [][\A r \in ListRequests :
            (req[r].pc = "idle" /\ req'[r].pc # "idle") =>
                (Has(req'[r].log, "read_db") <=> readyState = 1)]_vars

\* --------------------------------------------------------------- sequence
Armed(r) == \E t \in ScheduledTypes : timers[r][t].st # "unarmed"

\* C27: every lead that a capture request stored gets its follow-up sequence
\* armed: once the request has finished, some delayed stage has been
\* scheduled for the lead.
C27_StoredLeadIsArmed ==
    \A r \in Requests :
        (Capture(r) /\ Finished(r) /\ Has(req[r].log, "save")) => Armed(r)

\* C28: in every state between requests the in-memory leadCaptures counter
\* equals the number of leads in the in-memory lead list, whatever captures,
\* tracking events, connectivity changes and backend errors came before.
C28_MirrorCountsItsLeads ==
    NoneInFlight => fallbackAnalytics.leadCaptures = Len(fallbackLeads)

\* ---------------------------------------------------------------- dispatch
\* C30: a dispatch call makes at most one transport send attempt: exactly one
\* when the transport is configured, none when it is unconfigured; and the
\* configured flag, once false, never becomes true again.
C30_OneAttemptPerDispatch ==
    /\ [](probe.fn = "dispatch" =>
            /\ probe.attempts <= 1
            /\ probe.configured => probe.attempts = 1
            /\ ~probe.configured => probe.attempts = 0)
    /\ [][isConfigured' => isConfigured]_vars
====
